---- MODULE Spec2Model ----
(***************************************************************************)
(* Model of src/src/refactor_20250929_1.py: ImprovedProcessor (validate,   *)
(* batch, transform, filter, metrics) and ProcessorFactory.                *)
(*                                                                         *)
(* Python values are records tagged with their type name in field t.       *)
(* A call's outcome is either a returned value or a raised exception.      *)
(***************************************************************************)
EXTENDS Integers, Sequences, FiniteSets, TLC

VARIABLES
    procs,  \* the ImprovedProcessor objects alive, by reference 1..Len(procs)
    last,   \* the most recent call: operation, receiver, argument, outcome, heap before
    tally   \* per processor, what its caller has added up: len(result.data) of every success

vars == <<procs, last, tally>>

-----------------------------------------------------------------------------
(* Bounds of the model *)

\* longest list handed to process / validate
MaxLen == 2
\* process is not called again on a processor whose processed counter reached this
MaxProcessed == 2
\* process is not called again on a processor whose failed counter reached this
MaxFailed == 2
\* number of processors the factory is asked for
MaxProcs == 2

-----------------------------------------------------------------------------
(* Python values *)

PyNone == [t |-> "NoneType"]
PyInt(n) == [t |-> "int", v |-> n]
PyBool(b) == [t |-> "bool", v |-> b]
PyStr(s) == [t |-> "str", v |-> s]
PyList(s) == [t |-> "list", v |-> s]
PyTuple(s) == [t |-> "tuple", v |-> s]
PyDict(f) == [t |-> "dict", v |-> f]
\* the quotient num / den of a true division
PyFloat(num, den) == [t |-> "float", num |-> num, den |-> den]

EmptyDict == [k \in {} |-> PyNone]

\* an outcome: the value returned, or the exception raised
Return(v) == [raised |-> FALSE, value |-> v]
Raise(type, arg) == [raised |-> TRUE, exc |-> [type |-> type, arg |-> arg]]

Max(a, b) == IF a >= b THEN a ELSE b
Min(a, b) == IF a <= b THEN a ELSE b

\* bool(v) as `config or ...` uses it
Truthy(v) ==
    CASE v.t = "NoneType" -> FALSE
      [] v.t = "dict" -> DOMAIN v.v # {}
      [] v.t \in {"list", "tuple"} -> v.v # <<>>
      [] v.t = "str" -> v.v # ""
      [] v.t = "int" -> v.v # 0
      [] v.t = "bool" -> v.v
      [] OTHER -> TRUE

\* str(e): a KeyError prints the repr of its key
StrOfException(e) ==
    IF e.type = "KeyError" THEN "'" \o e.arg \o "'" ELSE e.arg

\* d[key]
DictGet(d, key) ==
    IF d.t # "dict"
    THEN Raise("TypeError", "'" \o d.t \o "' object is not subscriptable")
    ELSE IF key \in DOMAIN d.v THEN Return(d.v[key]) ELSE Raise("KeyError", key)

\* the int an int or a bool stands for
IntOf(x) == IF x.t = "bool" THEN (IF x.v THEN 1 ELSE 0) ELSE x.v

\* the number of elements of range(start, stop, step), step # 0
RangeLen(start, stop, step) ==
    IF step > 0 /\ start < stop THEN (stop - start - 1) \div step + 1
    ELSE IF step < 0 /\ start > stop THEN (start - stop - 1) \div (-step) + 1
    ELSE 0

\* range(start, stop, step), start and stop being ints
PyRange(start, stop, step) ==
    IF step.t \notin {"int", "bool"}
    THEN Raise("TypeError", "'" \o step.t \o "' object cannot be interpreted as an integer")
    ELSE IF IntOf(step) = 0
    THEN Raise("ValueError", "range() arg 3 must not be zero")
    ELSE Return([k \in 1..RangeLen(start, stop, IntOf(step)) |->
                    start + (k - 1) * IntOf(step)])

\* s[i:j] for 0 <= i <= j
PySlice(s, i, j) == SubSeq(s, i + 1, Min(j, Len(s)))

\* parts[lo] \o ... \o parts[hi]: what a loop that extends a list by each part leaves
RECURSIVE Concat(_, _, _)
Concat(parts, lo, hi) ==
    IF lo > hi THEN <<>>
    ELSE IF lo = hi THEN parts[lo]
    ELSE LET mid == (lo + hi) \div 2
         IN  Concat(parts, lo, mid) \o Concat(parts, mid + 1, hi)

RECURSIVE Repeat(_, _)
Repeat(s, n) == IF n <= 0 THEN SubSeq(s, 1, 0) ELSE s \o Repeat(s, n - 1)

\* x * n for an int n
PyMul(x, n) ==
    CASE x.t \in {"int", "bool"} -> Return(PyInt(IntOf(x) * n))
      [] x.t \in {"str", "list", "tuple"} -> Return([t |-> x.t, v |-> Repeat(x.v, n)])
      [] OTHER ->
           Raise("TypeError", "unsupported operand type(s) for *: '" \o x.t \o "' and 'int'")

\* x + n for an int n
PyAdd(x, n) ==
    CASE x.t \in {"int", "bool"} -> Return(PyInt(IntOf(x) + n))
      [] OTHER ->
           Raise("TypeError", "unsupported operand type(s) for +: '" \o x.t \o "' and 'int'")

\* x > n for an int n
PyGt(x, n) ==
    CASE x.t \in {"int", "bool"} -> Return(PyBool(IntOf(x) > n))
      [] OTHER ->
           Raise("TypeError", "'>' not supported between instances of '" \o x.t \o "' and 'int'")

-----------------------------------------------------------------------------
(* ProcessingResult and ImprovedProcessor *)

\* the dataclass; error and metrics default to None
ProcessingResult(success, data, error, metrics) ==
    [success |-> success, data |-> data, error |-> error, metrics |-> metrics]

_get_default_config ==
    PyDict([batch_size |-> PyInt(97),
            timeout |-> PyInt(3024),
            retry_count |-> PyInt(3),
            enable_caching |-> PyBool(TRUE)])

\* ImprovedProcessor.__init__(config): the new object
ImprovedProcessor(config) ==
    [config |-> IF Truthy(config) THEN config ELSE _get_default_config,
     metrics |-> [processed |-> 0, failed |-> 0, performance |-> <<>>]]

\* validate without its length test
validate_AcceptsEmpty(data) ==
    IF data = PyNone THEN FALSE
    ELSE IF data.t \notin {"list", "tuple"} THEN FALSE
    ELSE TRUE

\* validate whose length test is off by one
validate_NeedsTwo(data) ==
    IF data = PyNone THEN FALSE
    ELSE IF data.t \notin {"list", "tuple"} THEN FALSE
    ELSE IF Len(data.v) <= 1 THEN FALSE
    ELSE TRUE

validate(data) ==
    IF data = PyNone THEN FALSE
    ELSE IF data.t \notin {"list", "tuple"} THEN FALSE
    ELSE IF Len(data.v) = 0 THEN FALSE
    ELSE TRUE

_apply_transformation(item) ==
    LET m == PyMul(item, 6)
    IN  IF m.raised THEN m ELSE PyAdd(m.value, 67)

_validate_result(result) == PyGt(result, 99)

\* one iteration of the loop body of _process_batch: what it appends to results
ProcessItem(item) ==
    LET processed == _apply_transformation(item)
    IN  IF processed.raised THEN <<>>
        ELSE LET ok == _validate_result(processed.value)
             IN  IF ok.raised THEN <<>>
                 ELSE IF Truthy(ok.value) THEN <<processed.value>> ELSE <<>>

\* _process_batch leaving its loop at the first item that raises
_process_batch_Breaks(batch) ==
    LET bad == {k \in 1..Len(batch) : _apply_transformation(batch[k]).raised}
        n == IF bad = {} THEN Len(batch)
             ELSE (CHOOSE k \in bad : \A j \in bad : k <= j) - 1
    IN  Concat([k \in 1..n |-> ProcessItem(batch[k])], 1, n)

\* results after the loop over the batch's items
_process_batch(batch) ==
    Concat([k \in 1..Len(batch) |-> ProcessItem(batch[k])], 1, Len(batch))

\* get_metrics() of a processor with this config and these counters
get_metrics(self) ==
    PyDict([total_processed |-> PyInt(self.metrics.processed),
            total_failed |-> PyInt(self.metrics.failed),
            success_rate |-> PyFloat(self.metrics.processed,
                                     Max(1, self.metrics.processed + self.metrics.failed)),
            config |-> self.config])

\* the loop of process with each slice one element short
BatchLoop_ShortSlice(data, starts, batch_size) ==
    LET batch(i) == PySlice(data.v, i, i + batch_size - 1)
        batch_result(i) == _process_batch(batch(i))
    IN  Concat([k \in 1..Len(starts) |-> batch_result(starts[k])], 1, Len(starts))

\* the for loop of process over the starts i of the batches: results at its end
BatchLoop(data, starts, batch_size) ==
    LET batch(i) == PySlice(data.v, i, i + batch_size)
        batch_result(i) == _process_batch(batch(i))
    IN  Concat([k \in 1..Len(starts) |-> batch_result(starts[k])], 1, Len(starts))

\* the batch pipeline of process: results, or the exception that leaves the try body
RunBatches(self, data) ==
    LET batch_size == DictGet(self.config, "batch_size")
    IN  IF batch_size.raised THEN batch_size
        ELSE LET starts == PyRange(0, Len(data.v), batch_size.value)
             IN  IF starts.raised THEN starts
                 ELSE Return(BatchLoop(data, starts.value, IntOf(batch_size.value)))

\* the except clause of process without its count
ProcessFailed_NotCounted(self, e) ==
    [self |-> self,
     ret |-> ProcessingResult(FALSE, PyNone, PyStr(StrOfException(e)), PyNone)]

\* the except clause of process handing back an empty list as data
ProcessFailed_KeepsData(self, e) ==
    [self |-> [self EXCEPT !.metrics.failed = @ + 1],
     ret |-> ProcessingResult(FALSE, PyList(<<>>), PyStr(StrOfException(e)), PyNone)]

\* the except clause of process
ProcessFailed(self, e) ==
    [self |-> [self EXCEPT !.metrics.failed = @ + 1],
     ret |-> ProcessingResult(FALSE, PyNone, PyStr(StrOfException(e)), PyNone)]

\* a failed validation raised into the except clause instead of returned
ProcessInvalid_Raises(self) ==
    ProcessFailed(self, [type |-> "ValueError", arg |-> "Validation failed"])

\* the exit of process on a failed validation
ProcessInvalid(self) ==
    [self |-> self,
     ret |-> ProcessingResult(FALSE, PyNone, PyStr("Validation failed"), PyNone)]

\* the exit after the loop with the snapshot taken before the count
ProcessSucceeded_StaleSnapshot(self, results) ==
    LET after == [self EXCEPT !.metrics.processed = @ + Len(results)]
    IN  [self |-> after,
         ret |-> ProcessingResult(TRUE, PyList(results), PyNone, get_metrics(self))]

\* the exit after the loop with = for +=
ProcessSucceeded_Assigns(self, results) ==
    LET after == [self EXCEPT !.metrics.processed = Len(results)]
    IN  [self |-> after,
         ret |-> ProcessingResult(TRUE, PyList(results), PyNone, get_metrics(after))]

\* the exit of process after the loop
ProcessSucceeded(self, results) ==
    LET after == [self EXCEPT !.metrics.processed = @ + Len(results)]
    IN  [self |-> after,
         ret |-> ProcessingResult(TRUE, PyList(results), PyNone, get_metrics(after))]

\* process(data) on the processor self: the processor afterwards and the result
process(self, data) ==
    IF ~validate(data) THEN ProcessInvalid(self)
    ELSE LET results == RunBatches(self, data)
         IN  IF results.raised THEN ProcessFailed(self, results.exc)
             ELSE ProcessSucceeded(self, results.value)

\* create_processor whose message is no f-string
create_processor_PlainMessage(processor_type) ==
    IF processor_type = "improved"
    THEN Return(ImprovedProcessor(PyNone))
    ELSE Raise("ValueError", "Unknown processor type: {processor_type}")

\* ProcessorFactory.create_processor(processor_type)
create_processor(processor_type) ==
    IF processor_type = "improved"
    THEN Return(ImprovedProcessor(PyNone))
    ELSE Raise("ValueError", "Unknown processor type: " \o processor_type)

-----------------------------------------------------------------------------
(* Inputs *)

RECURSIVE SeqsUpTo(_, _)
SeqsUpTo(S, n) ==
    IF n = 0 THEN {<<>>}
    ELSE LET shorter == SeqsUpTo(S, n - 1)
         IN  shorter \cup {Append(s, x) : s \in {t \in shorter : Len(t) = n - 1}, x \in S}

\* list(range(100)) of the module's self-test
test_data == PyList([i \in 1..100 |-> PyInt(i - 1)])

\* elements: dropped by the filter, kept, kept, not a number
Items == {PyInt(5), PyInt(6), PyInt(7), PyStr("a")}

Lists == {PyList(s) : s \in SeqsUpTo(Items, MaxLen)}

OtherValues ==
    {PyNone, PyInt(5), PyStr("ab"), PyDict([a |-> PyInt(6)]),
     PyTuple(<<>>), PyTuple(<<PyInt(7)>>), PyTuple(<<PyInt(7), PyStr("a"), PyInt(6)>>),
     PyList(<<PyNone, PyInt(6)>>)}

DataValues == Lists \cup OtherValues \cup {test_data}

\* what the constructor is given as config
ConfigArgs ==
    {PyNone, PyDict(EmptyDict),
     PyDict([batch_size |-> PyInt(1)]), PyDict([batch_size |-> PyInt(2)]),
     PyDict([batch_size |-> PyInt(0)]), PyDict([batch_size |-> PyInt(-1)]),
     PyDict([batch_size |-> PyStr("10")]), PyDict([timeout |-> PyInt(30)])}

\* what the factory is asked for
Tags == {"improved", "bogus", "", "Improved"}

\* what the self-test style runs hand to process
FactoryData == {test_data, PyList(<<PyInt(5), PyInt(6)>>), PyList(<<>>)}

-----------------------------------------------------------------------------
(* Operations *)

Call(op, self, arg, ret) ==
    [op |-> op, self |-> self, arg |-> arg, ret |-> ret, pre |-> procs]

\* p.process(data)
Process(p, data) ==
    /\ procs[p].metrics.processed < MaxProcessed
    /\ procs[p].metrics.failed < MaxFailed
    /\ LET r == process(procs[p], data)
       IN  /\ procs' = [procs EXCEPT ![p] = r.self]
           /\ last' = Call("process", p, data, Return(r.ret))
           /\ tally' = [tally EXCEPT ![p] = @ + IF r.ret.success THEN Len(r.ret.data.v) ELSE 0]

\* p.validate(data)
Validate(p, data) ==
    /\ last' = Call("validate", p, data, Return(PyBool(validate(data))))
    /\ UNCHANGED <<procs, tally>>

\* p.get_metrics()
GetMetrics(p) ==
    /\ last' = Call("get_metrics", p, PyNone, Return(get_metrics(procs[p])))
    /\ UNCHANGED <<procs, tally>>

\* ProcessorFactory.create_processor(tag)
CreateProcessor(tag) ==
    LET r == create_processor(tag)
    IN  IF r.raised
        THEN /\ last' = Call("create_processor", 0, PyStr(tag), r)
             /\ UNCHANGED <<procs, tally>>
        ELSE /\ Len(procs) < MaxProcs
             /\ procs' = Append(procs, r.value)
             /\ tally' = Append(tally, 0)
             /\ last' = Call("create_processor", 0, PyStr(tag), Return(Len(procs) + 1))

\* one processor, built by ImprovedProcessor(config)
Init ==
    \E config \in ConfigArgs :
        /\ procs = <<ImprovedProcessor(config)>>
        /\ tally = <<0>>
        /\ last = [op |-> "__init__", self |-> 1, arg |-> config,
                   ret |-> Return(PyNone), pre |-> <<>>]

Next ==
    \/ \E p \in DOMAIN procs, data \in DataValues : Process(p, data)
    \/ \E p \in DOMAIN procs, data \in DataValues : Validate(p, data)
    \/ \E p \in DOMAIN procs : GetMetrics(p)

Spec == Init /\ [][Next]_vars

\* no processor yet: all come from the factory
InitFactory ==
    /\ procs = <<>>
    /\ tally = <<>>
    /\ last = [op |-> "start", self |-> 0, arg |-> PyNone, ret |-> Return(PyNone), pre |-> <<>>]

NextFactory ==
    \/ \E tag \in Tags : CreateProcessor(tag)
    \/ \E p \in DOMAIN procs, data \in FactoryData : Process(p, data)
    \/ \E p \in DOMAIN procs : GetMetrics(p)

SpecFactory == InitFactory /\ [][NextFactory]_vars

-----------------------------------------------------------------------------
(* Vocabulary of the properties *)

\* the receiver of the last call before and after it, and what the call returned
Pre == last.pre[last.self]
Post == procs[last.self]
Result == last.ret.value

IsSequence(d) == d.t \in {"list", "tuple"}
NonEmptySequence(d) == IsSequence(d) /\ Len(d.v) >= 1
AllNumbers(d) == \A i \in 1..Len(d.v) : d.v[i].t = "int"

\* the config holds an integer batch_size >= 1
BatchSizeOk(config) ==
    /\ config.t = "dict"
    /\ "batch_size" \in DOMAIN config.v
    /\ config.v.batch_size.t = "int"
    /\ config.v.batch_size.v >= 1

\* [x*6+67 for x in S if x*6+67 > 99], S a sequence of ints
Kept(S) ==
    LET y(x) == x.v * 6 + 67
        big(x) == y(x) > 99
        kept == SelectSeq(S, big)
    IN  [i \in 1..Len(kept) |-> PyInt(y(kept[i]))]

IsNumber(x) == x.t = "int"
Numbers(S) == SelectSeq(S, IsNumber)

\* m contains t
Contains(m, t) == \E i \in 0..(Len(m) - Len(t)) : SubSeq(m, i + 1, i + Len(t)) = t

-----------------------------------------------------------------------------
(* Properties *)

\* C1: process on a non-empty list or tuple of numbers, with any integer batch_size >= 1,
\* succeeds with data [x*6+67 for x in S if x*6+67 > 99] in the order of S; the batch
\* size does not show in the result.
C1_DataIsComprehension ==
    (/\ last.op = "process"
     /\ NonEmptySequence(last.arg)
     /\ AllNumbers(last.arg)
     /\ BatchSizeOk(Pre.config))
    => /\ Result.success
       /\ Result.data = PyList(Kept(last.arg.v))

\* C1 witness: two kept values of one list, each in its own batch
C1_Witness ==
    /\ last.op = "process"
    /\ last.arg = PyList(<<PyInt(7), PyInt(6)>>)
    /\ Pre.config.v.batch_size = PyInt(1)
    /\ Result.data = PyList(<<PyInt(109), PyInt(103)>>)

\* C2: process on None, an empty list or tuple, or anything that is no list or tuple
\* returns success false, data None, error "Validation failed", and leaves both
\* counters as they were.
C2_InvalidInputRejected ==
    (last.op = "process" /\ ~NonEmptySequence(last.arg))
    => /\ ~Result.success
       /\ Result.data = PyNone
       /\ Result.error = PyStr("Validation failed")
       /\ Post.metrics.processed = Pre.metrics.processed
       /\ Post.metrics.failed = Pre.metrics.failed

\* C2 witness: an empty list handed to a processor that has counted something
C2_Witness ==
    /\ last.op = "process"
    /\ last.arg = PyList(<<>>)
    /\ Pre.metrics.processed > 0
    /\ ~Result.success

\* C3: the processed counter is the sum of the lengths of the data of all successful
\* results so far, the snapshot in a successful result already counts that result, and
\* a processor that has counted nothing reports 94 for 0..99.
C3_ProcessedIsSumOfKept ==
    /\ \A p \in DOMAIN procs : procs[p].metrics.processed = tally[p]
    /\ (last.op = "process" /\ Result.success)
       => /\ Result.metrics.v.total_processed = PyInt(tally[last.self])
          /\ tally[last.self] = Pre.metrics.processed + Len(Result.data.v)
    /\ (/\ last.op = "process"
        /\ last.arg = test_data
        /\ BatchSizeOk(Pre.config)
        /\ Pre.metrics.processed = 0)
       => Result.metrics.v.total_processed = PyInt(94)

\* C3 witness: a later successful call that keeps something
C3_Witness ==
    /\ last.op = "process"
    /\ Result.success
    /\ Pre.metrics.processed > 0
    /\ Len(Result.data.v) > 0
    /\ Result.metrics.v.total_processed = PyInt(Pre.metrics.processed + Len(Result.data.v))

\* C4: both counters are 0 at construction and no step of process, validate or
\* get_metrics decreases either of them.
C4_CountersNeverDecrease ==
    /\ \A p \in DOMAIN procs : procs[p].metrics.processed = 0 /\ procs[p].metrics.failed = 0
    /\ [][\A p \in DOMAIN procs :
            /\ p \in DOMAIN procs'
            /\ procs'[p].metrics.processed >= procs[p].metrics.processed
            /\ procs'[p].metrics.failed >= procs[p].metrics.failed]_vars

\* C4 witness: a successful call that keeps nothing, on a processor that has counted
C4_Witness ==
    /\ last.op = "process"
    /\ Pre.metrics.processed = 1
    /\ Result.success
    /\ Len(Result.data.v) = 0
    /\ Post.metrics.processed = 1

\* C5: a result of process has data a list and error None when success is true, and
\* data None and error a string when success is false.
C5_DataXorError ==
    last.op = "process"
    => /\ Result.success => (Result.data.t = "list" /\ Result.error = PyNone)
       /\ ~Result.success => (Result.data = PyNone /\ Result.error.t = "str")

\* C5 witness: the exit through the except clause
C5_Witness ==
    /\ last.op = "process"
    /\ ~Result.success
    /\ Result.error # PyStr("Validation failed")

\* C6: an element that is no number is skipped alone: the call succeeds with the kept
\* values of the other elements in their order, failed stays, processed grows by the
\* number of values returned.
C6_BadItemSkipped ==
    (/\ last.op = "process"
     /\ NonEmptySequence(last.arg)
     /\ ~AllNumbers(last.arg)
     /\ BatchSizeOk(Pre.config))
    => /\ Result.success
       /\ Result.data = PyList(Kept(Numbers(last.arg.v)))
       /\ Post.metrics.failed = Pre.metrics.failed
       /\ Post.metrics.processed = Pre.metrics.processed + Len(Result.data.v)

\* C6 witness: the bad element first, a kept one behind it in the same batch
C6_Witness ==
    /\ last.op = "process"
    /\ last.arg = PyList(<<PyStr("a"), PyInt(6)>>)
    /\ Pre.config.v.batch_size = PyInt(2)
    /\ Result.data = PyList(<<PyInt(103)>>)

\* the config makes the batch pipeline raise: no batch_size, or one that range refuses
PipelineRaises(config) ==
    \/ "batch_size" \notin DOMAIN config.v
    \/ config.v.batch_size.t # "int"
    \/ config.v.batch_size.v = 0

\* str() of what it raises
PipelineError(config) ==
    IF "batch_size" \notin DOMAIN config.v THEN "'batch_size'"
    ELSE IF config.v.batch_size.t = "str"
    THEN "'str' object cannot be interpreted as an integer"
    ELSE "range() arg 3 must not be zero"

\* C7: when the batch pipeline raises on validated input, process returns a failure
\* whose error is the exception's text, failed grows by exactly 1 and processed stays.
C7_TopLevelFailureCounted ==
    (/\ last.op = "process"
     /\ NonEmptySequence(last.arg)
     /\ PipelineRaises(Pre.config))
    => /\ ~last.ret.raised
       /\ ~Result.success
       /\ Result.error = PyStr(PipelineError(Pre.config))
       /\ Post.metrics.failed = Pre.metrics.failed + 1
       /\ Post.metrics.processed = Pre.metrics.processed

\* C7 witness: batch_size 0, a second failure
C7_Witness ==
    /\ last.op = "process"
    /\ Pre.config.v = [batch_size |-> PyInt(0)]
    /\ Pre.metrics.failed = 1
    /\ Post.metrics.failed = 2
    /\ Result.error = PyStr("range() arg 3 must not be zero")

\* C8: create_processor("improved") returns a processor that did not exist before, with
\* both counters 0 and the default config (batch_size 97), and leaves the others as they
\* were; any other tag raises ValueError with the tag in its message and creates nothing.
\* A call on one processor leaves the others as they were.
C8_FactoryCreatesFresh ==
    /\ last.op = "create_processor"
       => IF last.arg = PyStr("improved")
          THEN /\ ~last.ret.raised
               /\ last.ret.value \notin DOMAIN last.pre
               /\ DOMAIN procs = DOMAIN last.pre \cup {last.ret.value}
               /\ procs[last.ret.value].metrics.processed = 0
               /\ procs[last.ret.value].metrics.failed = 0
               /\ procs[last.ret.value].config = _get_default_config
               /\ procs[last.ret.value].config.v.batch_size = PyInt(97)
               /\ \A q \in DOMAIN last.pre : procs[q] = last.pre[q]
          ELSE /\ last.ret.raised
               /\ last.ret.exc.type = "ValueError"
               /\ Contains(StrOfException(last.ret.exc), last.arg.v)
               /\ procs = last.pre
    /\ last.op = "process"
       => \A q \in DOMAIN procs \ {last.self} : procs[q] = last.pre[q]

\* C8 witness: a second processor, made when the first has counted something
C8_Witness ==
    /\ last.op = "create_processor"
    /\ last.ret = Return(2)
    /\ procs[1].metrics.processed > 0
    /\ procs[2].metrics.processed = 0

\* C9: validate returns true exactly for a non-None list or tuple of length >= 1,
\* whatever the processor has done before, and changes nothing.
C9_ValidateIsPure ==
    last.op = "validate"
    => /\ last.ret = Return(PyBool(/\ last.arg # PyNone
                                   /\ IsSequence(last.arg)
                                   /\ Len(last.arg.v) >= 1))
       /\ procs = last.pre

\* C9 witness: validate after validate on the same input, on a processor that has counted
C9_Witness ==
    /\ last.op = "validate"
    /\ last.arg = PyTuple(<<PyInt(7)>>)
    /\ last.ret = Return(PyBool(TRUE))
    /\ Pre.metrics.processed > 0

\* C10: with an integer batch_size >= 1 the except clause of process is never taken:
\* failed stays 0, a failure result carries "Validation failed", and every non-empty
\* list or tuple succeeds whatever its elements.
C10_NoTopLevelFailure ==
    /\ \A p \in DOMAIN procs : BatchSizeOk(procs[p].config) => procs[p].metrics.failed = 0
    /\ (last.op = "process" /\ BatchSizeOk(Pre.config))
       => /\ ~Result.success => Result.error = PyStr("Validation failed")
          /\ NonEmptySequence(last.arg) => Result.success
    /\ (last.op = "__init__" /\ ~Truthy(last.arg)) => BatchSizeOk(procs[1].config)

\* C10 witness: a list without a single number succeeds with nothing
C10_Witness ==
    /\ last.op = "process"
    /\ last.arg = PyList(<<PyStr("a"), PyStr("a")>>)
    /\ Pre.config = _get_default_config
    /\ Result.success
    /\ Result.data = PyList(<<>>)

====
